---- MODULE Spec2Model ----
(***************************************************************************)
(* Model of the MCP chat stack:                                            *)
(*   clients/mcp-expense-client/mcpClientChatBot.py  (Streamlit chat)      *)
(*   clients/mcp-expense-client/clientTesting.py     (one-shot client)     *)
(*   servers/mcp-math-server/main.py                 (math tool server)    *)
(* One behaviour runs one client surface; the surface is fixed in Init.    *)
(***************************************************************************)
EXTENDS Integers, Sequences, FiniteSets, TLC

\* ------------------------------------------------------------------ bounds
MaxRounds == 2        \* user inputs per chat session
MaxCalls == 2         \* tool-call requests carried by one decision response
MaxIds == 2           \* tool-call requests issued over one session
MaxExpenseTools == 2  \* tools listed by the remote backend

\* ------------------------------------------------------------- data values
\* Arguments of a tool call as the decision function delivers them: None, an
\* empty dict, a dict {a, b}, or a string.
Args(t, a, b, s) == [t |-> t, a |-> a, b |-> b, s |-> s]
NoneArgs == Args("none", 0, 0, "")
\* (field s of a dict names its keys: "" for {}, "ab" for {a, b})
EmptyDict == Args("dict", 0, 0, "")
DictArgs(a, b) == Args("dict", a, b, "ab")
StrArgs(s) == Args("str", 0, 0, s)

GoodJson == "{\"a\": 10, \"b\": 2}"
BadJson == "ten by two"

\* Python truthiness of an args value (None, {} and "" are falsy).
Falsy(x) == \/ x.t = "none"
            \/ x = EmptyDict
            \/ (x.t = "str" /\ x.s = "")

\* tc.get("args") or {}
ArgsOrEmpty(x) == IF Falsy(x) THEN EmptyDict ELSE x

\* json.loads on the strings the model uses: returns the decoded value or
\* raises.
json_loads(s) ==
  IF s = GoodJson THEN [raised |-> FALSE, val |-> DictArgs(10, 2)]
  ELSE [raised |-> TRUE, val |-> NoneArgs]

\* The isinstance(args, str) block of the chat client: decode, and on any
\* exception keep the value as it was.
DecodeArgs(x) ==
  IF x.t = "str"
  THEN IF json_loads(x.s).raised THEN x ELSE json_loads(x.s).val
  ELSE x

\* json.dumps of a tool result (a float with integral value).
json_dumps(n) == ToString(n) \o ".0"

\* ---------------------------------------------------------------- messages
NoId == 0
Msg(role, content, tcs, id) ==
  [role |-> role, content |-> content, tool_calls |-> tcs, tool_call_id |-> id]
SystemMessage(c) == Msg("System", c, <<>>, NoId)
HumanMessage(c) == Msg("User", c, <<>>, NoId)
AIMessage(c, tcs) == Msg("Assistant", c, tcs, NoId)
ToolMessage(id, c) == Msg("Tool", c, <<>>, id)
NoMsg == Msg("None", "", <<>>, NoId)

\* A message content of None, and Python's `content or ""`.
PyNone == "<None>"
ContentOrEmpty(c) == IF c = PyNone \/ c = "" THEN "" ELSE c

SYSTEM_PROMPT == "You have access to tools."
UserText == "question"
prompt == "Add an expense - Rs 900 for groceries on 7th December"

\* ------------------------------------------------------------- math server
IntV(n) == [k |-> "int", n |-> n, s |-> ""]
StrV(s) == [k |-> "str", n |-> 0, s |-> s]
NoneV == [k |-> "none", n |-> 0, s |-> ""]

Ret(n) == [raised |-> "", val |-> n]
Raise(e) == [raised |-> e, val |-> 0]

\* float(x.strip()) on the strings the model uses.
float_of_str(s) ==
  CASE s = "12" -> Ret(12)
    [] s = " 2 " -> Ret(2)
    [] s = "0" -> Ret(0)
    [] OTHER -> Raise("ValueError")

_as_number(x) ==
  IF x.k = "int" THEN Ret(x.n)
  ELSE IF x.k = "str" THEN float_of_str(x.s)
  ELSE Raise("TypeError")

\* divide(a, b): the divisor is converted and tested first.  The dividend
\* values used are multiples of the divisor, so the quotient is exact.
divide(a, b) ==
  LET divisor == _as_number(b) IN
  IF divisor.raised # "" THEN divisor
  ELSE IF divisor.val = 0 THEN Raise("ValueError: Cannot divide by zero")
  ELSE IF _as_number(a).raised # "" THEN _as_number(a)
  ELSE Ret(_as_number(a).val \div divisor.val)

add(a, b) ==
  IF _as_number(a).raised # "" THEN _as_number(a)
  ELSE IF _as_number(b).raised # "" THEN _as_number(b)
  ELSE Ret(_as_number(a).val + _as_number(b).val)

\* The tools the math server registers with @mcp.tool(), in file order.
MathToolNames == <<"add", "subtract", "multiply", "divide", "power", "modulus">>

\* A call of a math tool with dict arguments {a, b}; the model requests only
\* add and divide.
MathCall(name, a, b) ==
  IF name = "divide" THEN divide(IntV(a), IntV(b)) ELSE add(IntV(a), IntV(b))

\* --------------------------------------------------- discovery and catalog
Min(a, b) == IF a < b THEN a ELSE b

Descriptor(n, b) == [name |-> n, backend |-> b]

\* Tools the remote backend may list; "divide" collides with the math server.
\* A listing is the first k of them.
ExpenseToolNames == <<"add_expense", "divide", "list_expenses">>
ExpenseListings ==
  {SubSeq(ExpenseToolNames, 1, k) : k \in 0..Min(MaxExpenseTools, Len(ExpenseToolNames))}

\* client.get_tools(): the tools of every server, in SERVERS order
\* ("math", then "expense").
get_tools(expenseListing) ==
  [j \in DOMAIN MathToolNames |-> Descriptor(MathToolNames[j], "math")]
    \o [j \in DOMAIN expenseListing |-> Descriptor(expenseListing[j], "expense")]

\* d[k] = v
DictSet(d, k, v) == [x \in (DOMAIN d) \cup {k} |-> IF x = k THEN v ELSE d[x]]

\* {t.name: t for t in tools}
RECURSIVE DictComprehension(_, _)
DictComprehension(ts, d) ==
  IF ts = <<>> THEN d
  ELSE DictComprehension(Tail(ts), DictSet(d, Head(ts).name, Head(ts)))
tool_by_name_of(ts) == DictComprehension(ts, <<>>)

\* The loop with "if tool.name not in named_tools": the first tool of a name
\* is kept.
RECURSIVE NamedToolsFirstWins(_, _)
NamedToolsFirstWins(ts, named) ==
  IF ts = <<>> THEN named
  ELSE NamedToolsFirstWins(Tail(ts),
         IF Head(ts).name \in DOMAIN named THEN named
         ELSE DictSet(named, Head(ts).name, Head(ts)))
named_tools_first_wins(ts) == NamedToolsFirstWins(ts, <<>>)

\* named_tools = {}; for tool in tools: named_tools[tool.name] = tool
RECURSIVE NamedToolsLoop(_, _)
NamedToolsLoop(ts, named) ==
  IF ts = <<>> THEN named
  ELSE NamedToolsLoop(Tail(ts), DictSet(named, Head(ts).name, Head(ts)))
named_tools_of(ts) == NamedToolsLoop(ts, <<>>)

\* ------------------------------------------------------ decision function
\* What one tool-call request can be: a name and its arguments.
ReqKinds ==
  { [name |-> "divide", args |-> DictArgs(10, 2)],
    [name |-> "divide", args |-> DictArgs(10, 0)],
    [name |-> "divide", args |-> StrArgs(GoodJson)],
    [name |-> "divide", args |-> StrArgs(BadJson)],
    [name |-> "add_expense", args |-> NoneArgs],
    [name |-> "nosuch", args |-> EmptyDict] }

KindSeqs(n) == UNION {[1..k -> ReqKinds] : k \in 1..n}

\* The tool_calls of a response: ids are fresh, base, base+1, ...
ToolCalls(kinds, base) ==
  [j \in DOMAIN kinds |->
     [id |-> base + j - 1, name |-> kinds[j].name, args |-> kinds[j].args]]


\* ------------------------------------------------------- tool invocation
RemoteOk == "\"ok\""
Outcome(raised, content) == [raised |-> raised, content |-> content]

\* tool.ainvoke(args): what the call can do.  A math tool called with a dict
\* {a, b} runs the server function; a server-side exception comes back as an
\* exception of ainvoke, and so does a call whose arguments are not a dict
\* {a, b}.  A tool of the remote backend may return or raise.
ToolOutcomes(tool, args) ==
  IF tool.backend = "math" /\ args.t = "dict" /\ args # EmptyDict
  THEN LET r == MathCall(tool.name, args.a, args.b) IN
       IF r.raised # "" THEN {Outcome(TRUE, r.raised)}
       ELSE {Outcome(FALSE, json_dumps(r.val))}
  ELSE IF tool.backend = "math" THEN {Outcome(TRUE, "ToolException")}
  ELSE {Outcome(TRUE, "ToolException"), Outcome(FALSE, RemoteOk)}

\* ------------------------------------------------------- history presenter
\* Render without the tool_calls test: every AIMessage is shown.
RECURSIVE RenderEveryAssistant(_)
RenderEveryAssistant(h) ==
  IF h = <<>> THEN <<>>
  ELSE LET m == Head(h) IN
       IF m.role = "User"
       THEN <<[role |-> "user", content |-> m.content]>> \o RenderEveryAssistant(Tail(h))
       ELSE IF m.role = "Assistant"
       THEN <<[role |-> "assistant", content |-> m.content]>> \o RenderEveryAssistant(Tail(h))
       ELSE RenderEveryAssistant(Tail(h))

\* The render loop: HumanMessage is shown, AIMessage is shown unless it has
\* tool_calls, everything else is skipped.
RECURSIVE Render(_)
Render(h) ==
  IF h = <<>> THEN <<>>
  ELSE LET m == Head(h) IN
       IF m.role = "User" THEN <<[role |-> "user", content |-> m.content]>> \o Render(Tail(h))
       ELSE IF m.role = "Assistant"
       THEN IF m.tool_calls # <<>> THEN Render(Tail(h))
            ELSE <<[role |-> "assistant", content |-> m.content]>> \o Render(Tail(h))
       ELSE Render(Tail(h))

\* ------------------------------------------------------------ credentials
\* f"Bearer {FAST_MCP_API_KEY}": None is formatted as the text "None".
BearerHeader(key) == "Bearer " \o (IF key = PyNone THEN "None" ELSE key)

\* =================================================================== state
VARIABLES
  surface,       \* "chat" or "oneshot": which client runs
  pc,            \* position of the client's script
  initialized,   \* st.session_state.initialized
  tools,         \* discovered tool descriptors
  tool_by_name,  \* st.session_state.tool_by_name (chat)
  named_tools,   \* named_tools (one-shot)
  history,       \* st.session_state.history (chat)
  screen,        \* chat messages drawn by the current script run
  first,         \* first decision response (chat)
  final,         \* finalizing decision response (chat)
  response,      \* first decision response (one-shot)
  tool_calls,    \* tool_calls of the first response (chat)
  tool_msgs,     \* tool_msgs (chat)
  tool_messages, \* tool_messages (one-shot)
  pos,           \* position of the for-loop over the tool calls
  rounds,        \* user inputs handled so far
  nextId,        \* next fresh tool-call id
  roundStart,    \* length of history when the current round began
  lastCall,      \* the latest decision-function call: phase, messages, tools bound
  nDecide,       \* decision-function calls made in the current round
  invoked,       \* tool invocations made in the current round
  error,         \* exception that ended the latest script run, or "none"
  FAST_MCP_API_KEY, \* os.getenv("FAST_MCP_API_KEY"): the credential or None
  remoteHeaders, \* Authorization headers of the requests sent to the remote backend
  completed,     \* rounds that reached their final answer
  number_in,     \* argument of the latest _as_number call on the server
  number_out     \* what that call returned or raised

vars == <<surface, pc, initialized, tools, tool_by_name, named_tools, history,
          screen, first, final, response, tool_calls, tool_msgs, tool_messages,
          pos, rounds, nextId, roundStart, lastCall, nDecide, invoked, error,
          FAST_MCP_API_KEY, remoteHeaders, completed, number_in, number_out>>

fixedVars == <<FAST_MCP_API_KEY, number_in, number_out>>

catalogVars == <<surface, initialized, tools, tool_by_name, named_tools>>
oneShotVars == <<response, tool_messages>>
chatLocals == <<first, final, tool_calls, tool_msgs>>

Call(phase, msgs, bound) == [phase |-> phase, msgs |-> msgs, bound |-> bound]
Invocation(tc, tool, args) ==
  [id |-> tc.id, name |-> tc.name, backend |-> tool.backend, args |-> args]

NotCalled == [raised |-> "not called", val |-> 0]

Init ==
  /\ surface \in {"chat", "oneshot", "server"}
  /\ FAST_MCP_API_KEY \in (IF surface = "server" THEN {PyNone} ELSE {PyNone, "secret"})
  /\ remoteHeaders = {}
  /\ completed = 0
  /\ number_in = NoneV
  /\ number_out = NotCalled
  /\ pc = "Start"
  /\ initialized = FALSE
  /\ tools = <<>>
  /\ tool_by_name = <<>>
  /\ named_tools = <<>>
  /\ history = <<>>
  /\ screen = <<>>
  /\ first = NoMsg
  /\ final = NoMsg
  /\ response = NoMsg
  /\ tool_calls = <<>>
  /\ tool_msgs = <<>>
  /\ tool_messages = <<>>
  /\ pos = 1
  /\ rounds = 0
  /\ nextId = 1
  /\ roundStart = 0
  /\ lastCall = Call("none", <<>>, FALSE)
  /\ nDecide = 0
  /\ invoked = <<>>
  /\ error = "none"

\* ============================================================= chat client
\* The initialization without the SystemMessage in the history.
InitializeWithoutSystem ==
  /\ surface = "chat" /\ pc = "Start" /\ ~initialized
  /\ \E listing \in ExpenseListings :
       /\ tools' = get_tools(listing)
       /\ tool_by_name' = tool_by_name_of(get_tools(listing))
  /\ remoteHeaders' = remoteHeaders \cup {BearerHeader(FAST_MCP_API_KEY)}
  /\ history' = <<>>
  /\ initialized' = TRUE
  /\ screen' = Render(history')
  /\ pc' = "AwaitingInput"
  /\ error' = "none"
  /\ UNCHANGED <<fixedVars, completed, surface, named_tools, oneShotVars,
                 chatLocals, pos, rounds, nextId, roundStart, lastCall,
                 nDecide, invoked>>

\* First script run of a session: one-time initialization, render, no input.
Initialize ==
  /\ surface = "chat" /\ pc = "Start" /\ ~initialized
  /\ \E listing \in ExpenseListings :
       /\ tools' = get_tools(listing)
       /\ tool_by_name' = tool_by_name_of(get_tools(listing))
  /\ remoteHeaders' = remoteHeaders \cup {BearerHeader(FAST_MCP_API_KEY)}
  /\ history' = <<SystemMessage(SYSTEM_PROMPT)>>
  /\ initialized' = TRUE
  /\ screen' = Render(history')
  /\ pc' = "AwaitingInput"
  /\ error' = "none"
  /\ UNCHANGED <<fixedVars, completed, surface, named_tools, oneShotVars,
                 chatLocals, pos, rounds, nextId, roundStart, lastCall,
                 nDecide, invoked>>

\* client.get_tools() raises (a backend cannot be reached or rejects the
\* handshake): the script run ends before the session is initialized; the
\* request to the remote backend may have been sent.
InitializeFails ==
  /\ surface = "chat" /\ pc = "Start" /\ ~initialized
  /\ \E sent \in BOOLEAN :
       remoteHeaders' = IF sent THEN remoteHeaders \cup {BearerHeader(FAST_MCP_API_KEY)}
                        ELSE remoteHeaders
  /\ error' = "TransportConnectError"
  /\ UNCHANGED <<fixedVars, completed, catalogVars, oneShotVars, chatLocals,
                 history, screen, pc, pos, rounds, nextId, roundStart,
                 lastCall, nDecide, invoked>>

\* A script run with user_text that runs the initialization block again
\* (no "initialized" test): the client and the catalog are rebuilt.
UserInputRediscovers ==
  /\ surface = "chat" /\ pc = "AwaitingInput" /\ initialized
  /\ rounds < MaxRounds
  /\ \E listing \in ExpenseListings :
       /\ tools' = get_tools(listing)
       /\ tool_by_name' = tool_by_name_of(get_tools(listing))
  /\ screen' = Append(Render(history), [role |-> "user", content |-> UserText])
  /\ history' = Append(history, HumanMessage(UserText))
  /\ pc' = "Deciding"
  /\ rounds' = rounds + 1
  /\ roundStart' = Len(history)
  /\ first' = NoMsg /\ final' = NoMsg /\ tool_calls' = <<>> /\ tool_msgs' = <<>>
  /\ pos' = 1 /\ nDecide' = 0 /\ invoked' = <<>> /\ error' = "none"
  /\ UNCHANGED <<fixedVars, remoteHeaders, completed, surface, initialized,
                 named_tools, oneShotVars, nextId, lastCall>>

\* A script run with user_text: render the history, show and append the
\* user message.
UserInput ==
  /\ surface = "chat" /\ pc = "AwaitingInput" /\ initialized
  /\ rounds < MaxRounds
  /\ screen' = Append(Render(history), [role |-> "user", content |-> UserText])
  /\ history' = Append(history, HumanMessage(UserText))
  /\ pc' = "Deciding"
  /\ rounds' = rounds + 1
  /\ roundStart' = Len(history)
  /\ first' = NoMsg /\ final' = NoMsg /\ tool_calls' = <<>> /\ tool_msgs' = <<>>
  /\ pos' = 1 /\ nDecide' = 0 /\ invoked' = <<>> /\ error' = "none"
  /\ UNCHANGED <<fixedVars, remoteHeaders, completed, catalogVars, oneShotVars, nextId, lastCall>>

\* A failing first call that takes the user message back out of the history.
FirstDecisionFailsRollsBack ==
  /\ surface = "chat" /\ pc = "Deciding"
  /\ lastCall' = Call("first", history, TRUE)
  /\ nDecide' = nDecide + 1
  /\ error' = "DecisionFunctionError"
  /\ history' = SubSeq(history, 1, roundStart)
  /\ pc' = "AwaitingInput"
  /\ UNCHANGED <<fixedVars, remoteHeaders, completed, catalogVars, oneShotVars, chatLocals, screen, pos,
                 rounds, nextId, roundStart, invoked>>

\* first = llm_with_tools.ainvoke(history) raises.
FirstDecisionFails ==
  /\ surface = "chat" /\ pc = "Deciding"
  /\ lastCall' = Call("first", history, TRUE)
  /\ nDecide' = nDecide + 1
  /\ error' = "DecisionFunctionError"
  /\ pc' = "AwaitingInput"
  /\ UNCHANGED <<fixedVars, remoteHeaders, completed, catalogVars, oneShotVars, chatLocals, history, screen, pos,
                 rounds, nextId, roundStart, invoked>>

\* The no-tool branch storing a new AIMessage of the shown content (as the
\* tool branch does for the final answer) in place of the response itself.
FirstDecisionAnswersStoresCopy ==
  /\ surface = "chat" /\ pc = "Deciding"
  /\ lastCall' = Call("first", history, TRUE)
  /\ nDecide' = nDecide + 1
  /\ \E c \in {"answer", PyNone} :
       /\ first' = AIMessage(c, <<>>)
       /\ screen' = Append(screen, [role |-> "assistant", content |-> ContentOrEmpty(c)])
       /\ history' = Append(history, AIMessage(ContentOrEmpty(c), <<>>))
  /\ completed' = completed + 1
  /\ pc' = "Answering"
  /\ UNCHANGED <<fixedVars, remoteHeaders, catalogVars, oneShotVars, final, tool_calls, tool_msgs, pos,
                 rounds, nextId, roundStart, invoked, error>>

\* The first response carries no tool calls: show it and append it.
FirstDecisionAnswers ==
  /\ surface = "chat" /\ pc = "Deciding"
  /\ lastCall' = Call("first", history, TRUE)
  /\ nDecide' = nDecide + 1
  /\ \E c \in {"answer", PyNone} :
       /\ first' = AIMessage(c, <<>>)
       /\ screen' = Append(screen, [role |-> "assistant", content |-> ContentOrEmpty(c)])
       /\ history' = Append(history, AIMessage(c, <<>>))
  /\ completed' = completed + 1
  /\ pc' = "Answering"
  /\ UNCHANGED <<fixedVars, remoteHeaders, catalogVars, oneShotVars, final, tool_calls, tool_msgs, pos,
                 rounds, nextId, roundStart, invoked, error>>

\* The first response carries tool calls: append it without showing it.
FirstDecisionRequestsTools ==
  /\ surface = "chat" /\ pc = "Deciding"
  /\ lastCall' = Call("first", history, TRUE)
  /\ nDecide' = nDecide + 1
  /\ \E kinds \in KindSeqs(Min(MaxCalls, MaxIds + 1 - nextId)) :
       /\ first' = AIMessage("", ToolCalls(kinds, nextId))
       /\ tool_calls' = ToolCalls(kinds, nextId)
       /\ history' = Append(history, first')
       /\ nextId' = nextId + Len(kinds)
  /\ pc' = "ToolsRequested"
  /\ UNCHANGED <<fixedVars, remoteHeaders, completed, catalogVars, oneShotVars, final, tool_msgs, screen, pos,
                 rounds, roundStart, invoked, error>>

\* tool_msgs = [] and the loop over tool_calls starts.
BeginInvoking ==
  /\ surface = "chat" /\ pc = "ToolsRequested"
  /\ tool_msgs' = <<>>
  /\ pos' = 1
  /\ pc' = "Invoking"
  /\ UNCHANGED <<fixedVars, remoteHeaders, completed, catalogVars, oneShotVars, first, final, tool_calls, history,
                 screen, rounds, nextId, roundStart, lastCall, nDecide,
                 invoked, error>>

\* The arguments the chat client passes to the tool for a request.
ChatArgs(tc) == DecodeArgs(ArgsOrEmpty(tc.args))

\* tool_by_name[name] raises KeyError: the script run ends.
InvokeLookupFails ==
  /\ surface = "chat" /\ pc = "Invoking" /\ pos <= Len(tool_calls)
  /\ tool_calls[pos].name \notin DOMAIN tool_by_name
  /\ error' = "KeyError"
  /\ pc' = "AwaitingInput"
  /\ UNCHANGED <<fixedVars, remoteHeaders, completed, catalogVars, oneShotVars, chatLocals, history, screen, pos,
                 rounds, nextId, roundStart, lastCall, nDecide, invoked>>

\* tool.ainvoke(args) raises: the script run ends.
InvokeRaises ==
  /\ surface = "chat" /\ pc = "Invoking" /\ pos <= Len(tool_calls)
  /\ tool_calls[pos].name \in DOMAIN tool_by_name
  /\ LET tc == tool_calls[pos]
         tool == tool_by_name[tc.name]
     IN /\ \E out \in ToolOutcomes(tool, ChatArgs(tc)) : out.raised
        /\ invoked' = Append(invoked, Invocation(tc, tool, ChatArgs(tc)))
  /\ error' = "ToolException"
  /\ pc' = "AwaitingInput"
  /\ UNCHANGED <<fixedVars, remoteHeaders, completed, catalogVars, oneShotVars, chatLocals, history, screen, pos,
                 rounds, nextId, roundStart, lastCall, nDecide>>

\* tool.ainvoke(args) never completes: the call has no timeout, the script
\* run stays suspended in it.
InvokeNeverReturns ==
  /\ surface = "chat" /\ pc = "Invoking" /\ pos <= Len(tool_calls)
  /\ tool_calls[pos].name \in DOMAIN tool_by_name
  /\ LET tc == tool_calls[pos]
         tool == tool_by_name[tc.name]
     IN invoked' = Append(invoked, Invocation(tc, tool, ChatArgs(tc)))
  /\ pc' = "Blocked"
  /\ UNCHANGED <<fixedVars, remoteHeaders, completed, catalogVars, oneShotVars, chatLocals, history, screen, pos,
                 rounds, nextId, roundStart, lastCall, nDecide, error>>

\* The loop body appending each ToolMessage to the history as it is made.
InvokeReturnsAppendsToHistory ==
  /\ surface = "chat" /\ pc = "Invoking" /\ pos <= Len(tool_calls)
  /\ tool_calls[pos].name \in DOMAIN tool_by_name
  /\ LET tc == tool_calls[pos]
         tool == tool_by_name[tc.name]
     IN /\ \E out \in ToolOutcomes(tool, ChatArgs(tc)) :
             /\ ~out.raised
             /\ history' = Append(history, ToolMessage(tc.id, out.content))
        /\ invoked' = Append(invoked, Invocation(tc, tool, ChatArgs(tc)))
  /\ pos' = pos + 1
  /\ UNCHANGED <<fixedVars, remoteHeaders, completed, catalogVars, oneShotVars, chatLocals, screen, pc, rounds,
                 nextId, roundStart, lastCall, nDecide, error>>

\* tool.ainvoke(args) returns: its result is wrapped in a ToolMessage.
InvokeReturns ==
  /\ surface = "chat" /\ pc = "Invoking" /\ pos <= Len(tool_calls)
  /\ tool_calls[pos].name \in DOMAIN tool_by_name
  /\ LET tc == tool_calls[pos]
         tool == tool_by_name[tc.name]
     IN /\ \E out \in ToolOutcomes(tool, ChatArgs(tc)) :
             /\ ~out.raised
             /\ tool_msgs' = Append(tool_msgs, ToolMessage(tc.id, out.content))
        /\ invoked' = Append(invoked, Invocation(tc, tool, ChatArgs(tc)))
  /\ pos' = pos + 1
  /\ UNCHANGED <<fixedVars, remoteHeaders, completed, catalogVars, oneShotVars, first, final, tool_calls, history,
                 screen, pc, rounds, nextId, roundStart, lastCall, nDecide,
                 error>>

\* The loop exit without history.extend(tool_msgs): the tool outputs are not
\* in the history when the finalizing call is made.
ExtendHistoryMissing ==
  /\ surface = "chat" /\ pc = "Invoking" /\ pos > Len(tool_calls)
  /\ pc' = "Finalizing"
  /\ UNCHANGED <<fixedVars, remoteHeaders, completed, catalogVars, oneShotVars, chatLocals, history, screen, pos,
                 rounds, nextId, roundStart, lastCall, nDecide, invoked, error>>

\* history.extend(tool_msgs) after the loop.
ExtendHistory ==
  /\ surface = "chat" /\ pc = "Invoking" /\ pos > Len(tool_calls)
  /\ history' = history \o tool_msgs
  /\ pc' = "Finalizing"
  /\ UNCHANGED <<fixedVars, remoteHeaders, completed, catalogVars, oneShotVars, chatLocals, screen, pos, rounds,
                 nextId, roundStart, lastCall, nDecide, invoked, error>>

\* final = llm.ainvoke(history) raises.
FinalDecisionFails ==
  /\ surface = "chat" /\ pc = "Finalizing"
  /\ lastCall' = Call("final", history, FALSE)
  /\ nDecide' = nDecide + 1
  /\ error' = "DecisionFunctionError"
  /\ pc' = "AwaitingInput"
  /\ UNCHANGED <<fixedVars, remoteHeaders, completed, catalogVars, oneShotVars, chatLocals, history, screen, pos,
                 rounds, nextId, roundStart, invoked>>

\* What the finalizing call can return: an answer, or a message without
\* content that itself carries a tool call.
FinalResponses ==
  {AIMessage("answer", <<>>),
   AIMessage(PyNone, ToolCalls(<<[name |-> "divide", args |-> DictArgs(10, 2)]>>, nextId))}

\* The final response appended as it came, tool_calls included.
FinalDecisionReturnsStoresResponse ==
  /\ surface = "chat" /\ pc = "Finalizing"
  /\ lastCall' = Call("final", history, FALSE)
  /\ nDecide' = nDecide + 1
  /\ \E f \in FinalResponses :
       /\ final' = f
       /\ screen' = Append(screen, [role |-> "assistant", content |-> ContentOrEmpty(f.content)])
       /\ history' = Append(history, f)
  /\ completed' = completed + 1
  /\ pc' = "Answering"
  /\ UNCHANGED <<fixedVars, remoteHeaders, catalogVars, oneShotVars, first,
                 tool_calls, tool_msgs, pos, rounds, nextId, roundStart,
                 invoked, error>>

\* final = llm.ainvoke(history) returns: its content is shown and appended
\* as a new AIMessage.
FinalDecisionReturns ==
  /\ surface = "chat" /\ pc = "Finalizing"
  /\ lastCall' = Call("final", history, FALSE)
  /\ nDecide' = nDecide + 1
  /\ \E f \in FinalResponses :
       /\ final' = f
       /\ screen' = Append(screen, [role |-> "assistant", content |-> ContentOrEmpty(f.content)])
       /\ history' = Append(history, AIMessage(ContentOrEmpty(f.content), <<>>))
  /\ completed' = completed + 1
  /\ pc' = "Answering"
  /\ UNCHANGED <<fixedVars, remoteHeaders, catalogVars, oneShotVars, first, tool_calls, tool_msgs, pos,
                 rounds, nextId, roundStart, invoked, error>>

\* The script run ends; the next one waits for input.
EndRun ==
  /\ surface = "chat" /\ pc = "Answering"
  /\ pc' = "AwaitingInput"
  /\ UNCHANGED <<fixedVars, remoteHeaders, completed, catalogVars, oneShotVars, chatLocals, history, screen, pos,
                 rounds, nextId, roundStart, lastCall, nDecide, invoked, error>>

\* ========================================================= one-shot client
\* main(): client, get_tools, named_tools, llm, bind_tools.
MainSetup ==
  /\ surface = "oneshot" /\ pc = "Start"
  /\ \E listing \in ExpenseListings :
       /\ tools' = get_tools(listing)
       /\ named_tools' = named_tools_of(get_tools(listing))
  /\ remoteHeaders' = remoteHeaders \cup {BearerHeader(FAST_MCP_API_KEY)}
  /\ pc' = "FirstCall"
  /\ UNCHANGED <<fixedVars, completed, surface, initialized, tool_by_name,
                 history, screen, chatLocals, oneShotVars, pos, rounds, nextId,
                 roundStart, lastCall, nDecide, invoked, error>>

\* client.get_tools() raises: the program ends.
MainSetupFails ==
  /\ surface = "oneshot" /\ pc = "Start"
  /\ \E sent \in BOOLEAN :
       remoteHeaders' = IF sent THEN remoteHeaders \cup {BearerHeader(FAST_MCP_API_KEY)}
                        ELSE remoteHeaders
  /\ error' = "TransportConnectError"
  /\ pc' = "Crashed"
  /\ UNCHANGED <<fixedVars, completed, catalogVars, history, screen,
                 chatLocals, oneShotVars, pos, rounds, nextId, roundStart,
                 lastCall, nDecide, invoked>>

\* response = llm_with_tools.ainvoke(prompt) raises.
OneShotFirstFails ==
  /\ surface = "oneshot" /\ pc = "FirstCall"
  /\ lastCall' = Call("first", <<HumanMessage(prompt)>>, TRUE)
  /\ nDecide' = nDecide + 1
  /\ error' = "DecisionFunctionError"
  /\ pc' = "Crashed"
  /\ UNCHANGED <<fixedVars, remoteHeaders, completed, catalogVars, history, screen, chatLocals, oneShotVars, pos,
                 rounds, nextId, roundStart, invoked>>

\* The response has no tool_calls: print it and return.
OneShotAnswers ==
  /\ surface = "oneshot" /\ pc = "FirstCall"
  /\ lastCall' = Call("first", <<HumanMessage(prompt)>>, TRUE)
  /\ nDecide' = nDecide + 1
  /\ response' = AIMessage("answer", <<>>)
  /\ pc' = "Done"
  /\ UNCHANGED <<fixedVars, remoteHeaders, completed, catalogVars, history, screen, chatLocals, tool_messages, pos,
                 rounds, nextId, roundStart, invoked, error>>

\* The response has tool_calls: tool_messages = [] and the loop starts.
OneShotRequestsTools ==
  /\ surface = "oneshot" /\ pc = "FirstCall"
  /\ lastCall' = Call("first", <<HumanMessage(prompt)>>, TRUE)
  /\ nDecide' = nDecide + 1
  /\ \E kinds \in KindSeqs(Min(MaxCalls, MaxIds + 1 - nextId)) :
       /\ response' = AIMessage("", ToolCalls(kinds, nextId))
       /\ nextId' = nextId + Len(kinds)
  /\ tool_messages' = <<>>
  /\ pos' = 1
  /\ pc' = "ToolLoop"
  /\ UNCHANGED <<fixedVars, remoteHeaders, completed, catalogVars, history, screen, chatLocals, rounds, roundStart,
                 invoked, error>>

\* The arguments the one-shot client passes to the tool for a request.
OneShotArgs(tc) == ArgsOrEmpty(tc.args)

\* named_tools[selected_tool] raises KeyError: the program ends.
OneShotLookupFails ==
  /\ surface = "oneshot" /\ pc = "ToolLoop" /\ pos <= Len(response.tool_calls)
  /\ response.tool_calls[pos].name \notin DOMAIN named_tools
  /\ error' = "KeyError"
  /\ pc' = "Crashed"
  /\ UNCHANGED <<fixedVars, remoteHeaders, completed, catalogVars, history, screen, chatLocals, oneShotVars, pos,
                 rounds, nextId, roundStart, lastCall, nDecide, invoked>>

\* ainvoke raises: the program ends.
OneShotInvokeRaises ==
  /\ surface = "oneshot" /\ pc = "ToolLoop" /\ pos <= Len(response.tool_calls)
  /\ response.tool_calls[pos].name \in DOMAIN named_tools
  /\ LET tc == response.tool_calls[pos]
         tool == named_tools[tc.name]
     IN /\ \E out \in ToolOutcomes(tool, OneShotArgs(tc)) : out.raised
        /\ invoked' = Append(invoked, Invocation(tc, tool, OneShotArgs(tc)))
  /\ error' = "ToolException"
  /\ pc' = "Crashed"
  /\ UNCHANGED <<fixedVars, remoteHeaders, completed, catalogVars, history, screen, chatLocals, oneShotVars, pos,
                 rounds, nextId, roundStart, lastCall, nDecide>>

\* ainvoke never completes: main() stays suspended in it.
OneShotInvokeNeverReturns ==
  /\ surface = "oneshot" /\ pc = "ToolLoop" /\ pos <= Len(response.tool_calls)
  /\ response.tool_calls[pos].name \in DOMAIN named_tools
  /\ LET tc == response.tool_calls[pos]
         tool == named_tools[tc.name]
     IN invoked' = Append(invoked, Invocation(tc, tool, OneShotArgs(tc)))
  /\ pc' = "Blocked"
  /\ UNCHANGED <<fixedVars, remoteHeaders, completed, catalogVars, history, screen, chatLocals, oneShotVars, pos,
                 rounds, nextId, roundStart, lastCall, nDecide, error>>

\* ainvoke returns: its result is wrapped in a ToolMessage.
OneShotInvokeReturns ==
  /\ surface = "oneshot" /\ pc = "ToolLoop" /\ pos <= Len(response.tool_calls)
  /\ response.tool_calls[pos].name \in DOMAIN named_tools
  /\ LET tc == response.tool_calls[pos]
         tool == named_tools[tc.name]
     IN /\ \E out \in ToolOutcomes(tool, OneShotArgs(tc)) :
             /\ ~out.raised
             /\ tool_messages' = Append(tool_messages, ToolMessage(tc.id, out.content))
        /\ invoked' = Append(invoked, Invocation(tc, tool, OneShotArgs(tc)))
  /\ pos' = pos + 1
  /\ UNCHANGED <<fixedVars, remoteHeaders, completed, catalogVars, history, screen, chatLocals, response, pc,
                 rounds, nextId, roundStart, lastCall, nDecide, error>>

\* The message list of the final call: prompt, response, tool outputs.
FinalMessages == <<HumanMessage(prompt), response>> \o tool_messages

\* final_response = llm_with_tools.ainvoke([...]) after the loop.
OneShotFinalCall ==
  /\ surface = "oneshot" /\ pc = "ToolLoop" /\ pos > Len(response.tool_calls)
  /\ lastCall' = Call("final", FinalMessages, TRUE)
  /\ nDecide' = nDecide + 1
  /\ \E ok \in BOOLEAN :
       /\ pc' = IF ok THEN "Done" ELSE "Crashed"
       /\ error' = IF ok THEN error ELSE "DecisionFunctionError"
  /\ UNCHANGED <<fixedVars, remoteHeaders, completed, catalogVars, history, screen, chatLocals, oneShotVars, pos,
                 rounds, nextId, roundStart, invoked>>

\* ============================================================= math server
MaxNumber == 3   \* largest integer passed to _as_number

NumberInputs ==
  {IntV(n) : n \in -1..MaxNumber}
    \cup {StrV(s) : s \in {"12", " 2 ", "0", "abc", ""}}
    \cup {NoneV}

\* One call _as_number(x) on the server.
AsNumberCall ==
  /\ surface = "server"
  /\ \E x \in NumberInputs :
       /\ number_in' = x
       /\ number_out' = _as_number(x)
  /\ UNCHANGED <<FAST_MCP_API_KEY, remoteHeaders, completed, catalogVars,
                 oneShotVars, chatLocals, history, screen, pc, pos, rounds,
                 nextId, roundStart, lastCall, nDecide, invoked, error>>

\* =========================================================== specification
Next ==
  \/ Initialize
  \/ InitializeFails
  \/ MainSetupFails
  \/ AsNumberCall
  \/ InvokeNeverReturns
  \/ OneShotInvokeNeverReturns
  \/ UserInput
  \/ FirstDecisionFails
  \/ FirstDecisionAnswers
  \/ FirstDecisionRequestsTools
  \/ BeginInvoking
  \/ InvokeLookupFails
  \/ InvokeRaises
  \/ InvokeReturns
  \/ ExtendHistory
  \/ FinalDecisionFails
  \/ FinalDecisionReturns
  \/ EndRun
  \/ MainSetup
  \/ OneShotFirstFails
  \/ OneShotAnswers
  \/ OneShotRequestsTools
  \/ OneShotLookupFails
  \/ OneShotInvokeRaises
  \/ OneShotInvokeReturns
  \/ OneShotFinalCall

Spec == Init /\ [][Next]_vars

\* The script runs to its next suspension point whenever it can: every step
\* is a call that returns, raises or (for a tool) is known never to return.
LiveSpec == Init /\ [][Next]_vars /\ WF_vars(Next)

TypeOK ==
  /\ surface \in {"chat", "oneshot", "server"}
  /\ completed \in 0..rounds
  /\ pc \in {"Start", "AwaitingInput", "Deciding", "ToolsRequested", "Invoking",
             "Finalizing", "Answering", "FirstCall", "ToolLoop", "Done", "Crashed",
             "Blocked"}
  /\ initialized \in BOOLEAN
  /\ rounds \in 0..MaxRounds
  /\ nextId \in 1..(MaxIds + 1)
  /\ Len(tool_msgs) <= Len(tool_calls)

\* ================================================================ properties
\* Ids requested by the Assistant messages of a message list, the number of
\* Tool messages answering an id, and the requests without exactly one answer.
RequestedIds(h) ==
  UNION {{h[j].tool_calls[k].id : k \in DOMAIN h[j].tool_calls} :
           j \in {x \in DOMAIN h : h[x].role = "Assistant"}}
ToolCount(h, id) ==
  Cardinality({j \in DOMAIN h : h[j].role = "Tool" /\ h[j].tool_call_id = id})
Dangling(h) == {id \in RequestedIds(h) : ToolCount(h, id) # 1}
Correlated(h) == Dangling(h) = {}

\* Texts a Tool message would carry as an error payload.
ErrorPayloads == {"ValueError: Cannot divide by zero", "ToolException", "KeyError"}
HasErrorResult(h, id) ==
  \E j \in DOMAIN h : /\ h[j].role = "Tool"
                       /\ h[j].tool_call_id = id
                       /\ h[j].content \in ErrorPayloads
IsFinalAnswer(m) == m.role = "Assistant" /\ m.tool_calls = <<>>
RoundOver == surface = "chat" /\ pc = "AwaitingInput" /\ rounds > 0

\* C1: every history submitted to the decision function by the chat client
\* has exactly one Tool message for each tool-call request id it contains.
C1_SubmittedHistoryCorrelated ==
  (surface = "chat" /\ lastCall.phase # "none") => Correlated(lastCall.msgs)

\* C2: a round whose first response carries k >= 1 requests produces exactly
\* k Tool messages, the i-th with the id of the i-th request, placed in
\* request order directly after the requesting Assistant message (in the
\* history of the chat client, in the final message list of the one-shot
\* client).
C2_ResultsMatchRequests ==
  /\ (RoundOver /\ first.tool_calls # <<>>) =>
       LET k == Len(first.tool_calls)
           p == roundStart + 2
       IN /\ Len(history) >= p + k
          /\ history[p] = first
          /\ \A i \in 1..k : /\ history[p + i].role = "Tool"
                             /\ history[p + i].tool_call_id = first.tool_calls[i].id
          /\ Len(history) > p + k => history[p + k + 1].role # "Tool"
  /\ (surface = "oneshot" /\ pc \in {"Done", "Crashed"} /\ response.tool_calls # <<>>) =>
       LET k == Len(response.tool_calls) IN
       /\ lastCall.phase = "final"
       /\ Len(lastCall.msgs) = 2 + k
       /\ lastCall.msgs[2] = response
       /\ \A i \in 1..k : /\ lastCall.msgs[2 + i].role = "Tool"
                          /\ lastCall.msgs[2 + i].tool_call_id = response.tool_calls[i].id

\* An invocation the math server rejects with the divide-by-zero error.
DividesByZero(inv) ==
  inv.name = "divide" /\ inv.backend = "math" /\ inv.args = DictArgs(10, 0)

\* C3: when a tool invocation fails (divide with divisor 0), the round still
\* appends a Tool message with an error payload for that request and still
\* ends with a final Assistant message.
C3_ToolFailureContained ==
  \A j \in DOMAIN invoked :
    (RoundOver /\ DividesByZero(invoked[j])) =>
      /\ HasErrorResult(history, invoked[j].id)
      /\ IsFinalAnswer(history[Len(history)])

\* C4: a request for a name that is not in the catalog becomes a Tool message
\* with that id and an error payload, the other requests of the round are
\* processed too, and the round reaches the finalizing decision call.
C4_UnknownToolContained ==
  \A i \in DOMAIN first.tool_calls :
    (RoundOver /\ first.tool_calls[i].name \notin DOMAIN tool_by_name) =>
      /\ HasErrorResult(history, first.tool_calls[i].id)
      /\ \A k \in DOMAIN first.tool_calls : ToolCount(history, first.tool_calls[k].id) = 1
      /\ lastCall.phase = "final"

\* C5: string arguments are decoded before the tool is invoked, and a string
\* that does not decode is never passed to the tool: no invocation, on either
\* client, receives a raw string.
C5_NoRawStringInvoked ==
  \A j \in DOMAIN invoked : invoked[j].args.t # "str"

\* A step in which a decision-function call of the chat client fails.
DecisionFailureStep ==
  /\ surface = "chat"
  /\ pc \in {"Deciding", "Finalizing"}
  /\ error' = "DecisionFunctionError"

\* C6: a failing decision-function call (first or finalizing) ends the round
\* and leaves the history as it was after the last append: nothing is added,
\* removed or changed, the engine waits for the next input, and the requests
\* of the aborted round all have their results, so that the history the next
\* round submits has no unanswered request that the history before the
\* aborted round did not already have.
C6_DecisionFailureConsistent ==
  [][DecisionFailureStep =>
       /\ history' = history
       /\ pc' = "AwaitingInput" /\ initialized'
       /\ Dangling(Append(history', HumanMessage(UserText)))
            = Dangling(SubSeq(history, 1, roundStart))]_vars

C6_Witness ==
  /\ RoundOver /\ error = "DecisionFunctionError"
  /\ lastCall.phase = "final"
  /\ Len(first.tool_calls) = 2

\* C7: on both clients the finalizing decision call is made with the user
\* input, the tool-requesting Assistant message and all tool results, and
\* without the tool set bound.
C7_FinalCallUnbound ==
  lastCall.phase = "final" =>
    /\ ~lastCall.bound
    /\ LET n == Len(lastCall.msgs)
           req == IF surface = "chat" THEN first ELSE response
           k == Len(req.tool_calls)
       IN /\ n >= k + 2
          /\ lastCall.msgs[n - k - 1].role = "User"
          /\ lastCall.msgs[n - k] = req
          /\ \A i \in 1..k : lastCall.msgs[n - k + i].tool_call_id = req.tool_calls[i].id

\* What the presenter is to show of a history: the User messages and the
\* Assistant messages without tool-call requests, in order.
Presentable(m) == m.role = "User" \/ (m.role = "Assistant" /\ m.tool_calls = <<>>)
Shown(h) ==
  [j \in DOMAIN h |->
     [role |-> IF h[j].role = "User" THEN "user" ELSE "assistant",
      content |-> h[j].content]]
Presented(h) == Shown(SelectSeq(h, Presentable))

\* A step of the chat client that runs the render loop.
RenderStep ==
  /\ surface = "chat"
  /\ \/ pc = "Start"
     \/ pc = "AwaitingInput" /\ pc' = "Deciding"

\* C8: the presenter renders exactly the User messages and the Assistant
\* messages without tool-call requests, in history order (what is on screen
\* once the user message is drawn is that selection of the history), and a
\* run of the render loop leaves every message of the history in place.
C8_PresenterFilters ==
  /\ [](surface = "chat" =>
          /\ Render(history) = Presented(history)
          /\ pc = "Deciding" => screen = Presented(history))
  /\ [][RenderStep =>
          /\ Len(history') >= Len(history)
          /\ SubSeq(history', 1, Len(history)) = history]_vars

C8_Witness ==
  /\ surface = "chat" /\ pc = "Deciding"
  /\ Len(history) = 7
  /\ history[3].role = "Assistant" /\ Len(history[3].tool_calls) = 2
  /\ history[4].role = "Tool" /\ history[5].role = "Tool"
  /\ IsFinalAnswer(history[6])
  /\ Len(screen) = 3

\* C9: a round whose first response carries no tool-call requests makes one
\* decision-function call, invokes no tool, appends no Tool message and
\* appends exactly that response after the User message.
C9_NoToolRound ==
  /\ (surface = "chat" /\ pc \in {"Answering", "AwaitingInput"}
        /\ first # NoMsg /\ first.tool_calls = <<>>) =>
       /\ nDecide = 1
       /\ lastCall.phase = "first"
       /\ invoked = <<>>
       /\ tool_msgs = <<>>
       /\ Len(history) = roundStart + 2
       /\ history[roundStart + 1] = HumanMessage(UserText)
       /\ history[roundStart + 2] = first
  /\ (surface = "oneshot" /\ pc = "Done" /\ response.tool_calls = <<>>) =>
       /\ nDecide = 1
       /\ lastCall.phase = "first"
       /\ invoked = <<>>
       /\ tool_messages = <<>>

C9_Witness ==
  /\ surface = "chat" /\ pc = "Answering" /\ rounds = 2
  /\ first = AIMessage(PyNone, <<>>)
  /\ Len(history) = 5

\* Discovery as the catalog sees it: the names each backend lists, and the
\* backend a name is resolved to when both list it (the later one of SERVERS).
ListedBy(b) == {tools[j].name : j \in {x \in DOMAIN tools : tools[x].backend = b}}
Designated(n) == IF n \in ListedBy("expense") THEN "expense" ELSE "math"
Catalog == IF surface = "chat" THEN tool_by_name ELSE named_tools

\* C10: the catalog maps every discovered name to exactly one descriptor:
\* N+M entries without overlap, and with an overlapping name the descriptor of
\* the same designated backend on both clients, which is also the backend
\* every invocation of that name goes to.
C10_CatalogUnique ==
  pc # "Start" =>
    LET mathNames == ListedBy("math")
        expenseNames == ListedBy("expense")
        catalog == Catalog
    IN /\ DOMAIN catalog = mathNames \cup expenseNames
       /\ \A n \in DOMAIN catalog :
            /\ catalog[n] = Descriptor(n, IF n \in expenseNames THEN "expense" ELSE "math")
            /\ \E j \in DOMAIN tools : tools[j] = catalog[n]
       /\ (mathNames \cap expenseNames = {}) =>
            Cardinality(DOMAIN catalog) = Len(tools)
       /\ Cardinality(mathNames \cap expenseNames) = 1 =>
            Cardinality(DOMAIN catalog) = Len(tools) - 1
       /\ \A j \in DOMAIN invoked :
            invoked[j].backend =
              IF invoked[j].name \in expenseNames THEN "expense" ELSE "math"

C10_Witness ==
  /\ surface = "oneshot"
  /\ "divide" \in ListedBy("math") \cap ListedBy("expense")
  /\ \E j \in DOMAIN invoked :
       invoked[j].name = "divide" /\ invoked[j].backend = "expense"

\* C11: once the one-time initialization has completed, the client, the tool
\* list, the name-to-tool catalog (and with them the tool-bound decision
\* function) are never modified or rebuilt: no step of any later script run
\* changes them or sends a new discovery request.
C11_SessionObjectsFrozen ==
  [][(surface = "chat" /\ initialized) =>
       /\ initialized'
       /\ tools' = tools
       /\ tool_by_name' = tool_by_name
       /\ remoteHeaders' = remoteHeaders]_vars

C11_Witness ==
  /\ surface = "chat" /\ initialized /\ rounds = 2
  /\ pc = "AwaitingInput" /\ error = "ToolException"
  /\ "divide" \in ListedBy("expense")

\* The steps of the conversation engine that append to the history.
AppendingStep ==
  \/ pc = "Start"
  \/ pc = "AwaitingInput" /\ pc' = "Deciding"
  \/ pc = "Deciding" /\ pc' \in {"Answering", "ToolsRequested"}
  \/ pc = "Invoking" /\ pc' = "Finalizing"
  \/ pc = "Finalizing" /\ pc' = "Answering"

\* C12: the history is append-only: the history before a step is a prefix of
\* the history after it, and it changes only in the engine's own steps.
C12_HistoryAppendOnly ==
  [][surface = "chat" =>
       /\ Len(history') >= Len(history)
       /\ SubSeq(history', 1, Len(history)) = history
       /\ history' # history => AppendingStep]_vars

C12_Witness ==
  /\ surface = "chat" /\ rounds = 2 /\ pc = "AwaitingInput"
  /\ error = "DecisionFunctionError" /\ lastCall.phase = "first"
  /\ Len(history) = 6

\* C13: every round that starts returns to AwaitingInput, also when a backend
\* never answers a tool invocation: the invocation is bounded by a timeout
\* and its request then gets a Tool message with an error payload.
C13_RoundReturns ==
  [](surface = "chat" /\ pc = "Deciding" => <>(pc = "AwaitingInput"))

\* C14: with the credential absent, session start fails before any request
\* goes to the remote backend: no request carries a bearer header built from
\* the missing value and the session is never set up.
C14_NoRequestWithoutCredential ==
  (surface # "server" /\ FAST_MCP_API_KEY = PyNone) =>
    /\ remoteHeaders = {}
    /\ ~initialized
    /\ pc \in {"Start", "Crashed"}

\* The transitions of the round state machine; a failing decision-function
\* call ends the round from Deciding or Finalizing (the abort of a
\* DecisionFunctionError).
RoundTransition ==
  \/ pc' = pc
  \/ pc = "Start" /\ pc' = "AwaitingInput"
  \/ pc = "AwaitingInput" /\ pc' = "Deciding"
  \/ pc = "Deciding" /\ pc' \in {"Answering", "ToolsRequested"}
  \/ pc = "ToolsRequested" /\ pc' = "Invoking"
  \/ pc = "Invoking" /\ pc' = "Finalizing"
  \/ pc = "Finalizing" /\ pc' = "Answering"
  \/ pc = "Answering" /\ pc' = "AwaitingInput"
  \/ /\ pc \in {"Deciding", "Finalizing"} /\ pc' = "AwaitingInput"
     /\ error' = "DecisionFunctionError"

\* C15: a round of the chat client follows only the transitions of the round
\* state machine: the User message is in the history before the first
\* decision call, the requesting Assistant message before any invocation, the
\* finalizing call comes after every request was invoked, decision calls are
\* made one at a time and at most twice per round, and Finalizing never leads
\* back to Invoking.
C15_RoundStateMachine ==
  [][surface = "chat" =>
       /\ RoundTransition
       /\ pc' = "Deciding" => history'[Len(history')].role = "User"
       /\ invoked' # invoked /\ invoked' # <<>> =>
            history[Len(history)] = first /\ first.tool_calls # <<>>
       /\ pc' = "Finalizing" => Len(invoked') = Len(tool_calls)
       /\ nDecide' <= nDecide + 1 /\ nDecide' <= 2
       /\ ~(pc = "Finalizing" /\ pc' = "Invoking")]_vars

\* The inputs _as_number is to accept, and their numeric value.
Convertible(x) == x.k = "int" \/ (x.k = "str" /\ x.s \in {"12", " 2 ", "0"})
NumericValue(x) ==
  IF x.k = "int" THEN x.n
  ELSE IF x.s = "12" THEN 12 ELSE IF x.s = " 2 " THEN 2 ELSE 0

\* C16: _as_number returns the numeric value of an int, a float or a numeric
\* string, and raises TypeError, and nothing else, for every other input.
C16_AsNumberTypeError ==
  (surface = "server" /\ number_out # NotCalled) =>
    IF Convertible(number_in)
    THEN number_out = Ret(NumericValue(number_in))
    ELSE number_out.raised = "TypeError"

\* The Tool messages directly after position p of a message list.
RECURSIVE ToolRun(_, _)
ToolRun(h, p) ==
  IF p < Len(h) /\ h[p + 1].role = "Tool" THEN 1 + ToolRun(h, p + 1) ELSE 0
Requesting(h) == {j \in DOMAIN h : h[j].role = "Assistant" /\ h[j].tool_calls # <<>>}
LastRequesting(h) == CHOOSE j \in Requesting(h) : \A x \in Requesting(h) : x <= j

\* C17: in the chat client the Tool messages of a round enter the history
\* all together or not at all: the latest tool-requesting Assistant message is
\* followed by no Tool message or by one per request, never by some of them.
C17_ToolResultsAllOrNone ==
  (surface = "chat" /\ Requesting(history) # {}) =>
    LET p == LastRequesting(history) IN
    ToolRun(history, p) \in {0, Len(history[p].tool_calls)}

C17_Witness ==
  /\ surface = "chat" /\ pc = "AwaitingInput" /\ error = "ToolException"
  /\ Len(invoked) = 2 /\ Len(tool_msgs) = 1
  /\ Requesting(history) # {}
  /\ ToolRun(history, LastRequesting(history)) = 0

\* C18: after n rounds that all completed, whatever the rounds were and
\* whatever the finalizing responses carried, the last message of the history
\* is an Assistant message without tool-call requests and the presenter shows
\* 2n messages, alternately user and assistant.
C18_CompletedRoundsAlternate ==
  (surface = "chat" /\ pc = "AwaitingInput" /\ rounds >= 1 /\ completed = rounds) =>
    /\ IsFinalAnswer(history[Len(history)])
    /\ Len(Render(history)) = 2 * rounds
    /\ \A j \in DOMAIN Render(history) :
         Render(history)[j].role = IF j % 2 = 1 THEN "user" ELSE "assistant"

C18_Witness ==
  /\ surface = "chat" /\ pc = "AwaitingInput" /\ rounds = 2 /\ completed = 2
  /\ final.tool_calls # <<>>
  /\ Len(history) = 7

\* C19: once initialized, the chat history starts with the System message
\* and holds no other System message, so every history submitted to the
\* decision function starts with the system prompt.
C19_SystemMessageFirst ==
  (surface = "chat" /\ initialized) =>
    /\ Len(history) >= 1
    /\ history[1] = SystemMessage(SYSTEM_PROMPT)
    /\ \A j \in DOMAIN history : history[j].role = "System" => j = 1
    /\ lastCall.phase # "none" => lastCall.msgs[1] = SystemMessage(SYSTEM_PROMPT)

C19_Witness ==
  /\ surface = "chat" /\ initialized /\ rounds = 2
  /\ lastCall.phase = "final" /\ Len(lastCall.msgs) >= 6

====
